---- MODULE Spec2Model ----
(***************************************************************************)
(* A model of SPLINTER's radial basis function network (rbfnetwork.cpp)    *)
(* and of its byte-stream serializer (serializer.cpp).                     *)
(*                                                                         *)
(* Numbers.  A C++ double is modelled in fixed point: coordinates, sample  *)
(* outputs and weights are small integers, kernel values are integers in   *)
(* units of 1/Scale.  A Euclidean distance r = sqrt(q) is carried as its   *)
(* radicand q (an integer for integer coordinates), so that r == 0 is      *)
(* q = 0 and a division by r is a division by R(q), the fixed-point root.  *)
(* The result of a floating-point division is a record that keeps IEEE's   *)
(* special values: [k |-> "fin", n, d] is n/d, "nan" is 0/0, "inf" is x/0. *)
(***************************************************************************)
EXTENDS Integers, Sequences, FiniteSets, TLC

VARIABLES
    \* ---- the RBFNetwork object (rbfnetwork.cpp) ----
    alive,          \* the object exists (a constructor has completed)
    numVariables,   \* Function::numVariables
    samples,        \* the owned DataTable
    type,           \* RBFType
    normalized,
    precondition,
    numSamples,
    fn,             \* the kernel object held in the shared_ptr
    coefficients,   \* the weight vector
    svdA, svdB,     \* the linear system the constructor hands to JacobiSVD
    pc,             \* "ready": between calls; "returned": a call has just returned
    ret,            \* what the last call returned or threw
    halfLoaded,     \* a load has failed after it had written some of the fields
    \* ---- a Serializer and the file it reads or writes (serializer.cpp) ----
    kind,           \* the type of the object being (de)serialized
    obj,            \* the object handed to serialize
    stream,         \* Serializer::stream
    file,           \* the bytes of the file on disk (as chars)
    damage,         \* what happened to the file since it was written
    out,            \* the object deserialize filled
    sret            \* the outcome of the last serializer call

rbfVars == <<alive, numVariables, samples, type, normalized, precondition,
             numSamples, fn, coefficients, svdA, svdB, pc, ret, halfLoaded>>
serVars == <<kind, obj, stream, file, damage, out, sret>>
vars == <<rbfVars, serVars>>

(***************************************************************************)
(* Bounds of the model.                                                    *)
(***************************************************************************)
MaxSamples == 2
Dims == {1, 2}
Coords == {0, 1}
Outputs == <<2, 3, 5, 7>>          \* y of the i-th sample of a table
Weights == {-1, 2}                 \* values a solved weight may take

\* the indeterminate value of a double that was allocated and never written
Uninit == -8388608

Scale == 1000

(***************************************************************************)
(* Sequences and fixed-point arithmetic.                                   *)
(***************************************************************************)
RECURSIVE SumSeq(_)
SumSeq(s) == IF s = <<>> THEN 0 ELSE Head(s) + SumSeq(Tail(s))

RECURSIVE Newton(_, _)
Newton(v, x) ==
    LET y == (x + v \div x) \div 2
    IN IF y >= x THEN x ELSE Newton(v, y)

ISqrt(v) == IF v = 0 THEN 0 ELSE Newton(v, v)

\* sqrt(q) in units of 1/Scale
R(q) == ISqrt(q * Scale * Scale)

NaN == [k |-> "nan", n |-> 0, d |-> 1]
Inf(s) == [k |-> "inf", n |-> s, d |-> 1]
Fin(n) == [k |-> "fin", n |-> n, d |-> 1]

\* a / b in IEEE arithmetic
FDiv(a, b) ==
    IF b = 0 THEN (IF a = 0 THEN NaN ELSE IF a > 0 THEN Inf(1) ELSE Inf(-1))
    ELSE IF b < 0 THEN [k |-> "fin", n |-> -a, d |-> -b]
    ELSE [k |-> "fin", n |-> a, d |-> b]

\* w * u for an integer w
FScale(w, u) ==
    IF u.k = "nan" THEN NaN
    ELSE IF u.k = "inf" THEN (IF w = 0 THEN NaN ELSE IF w > 0 THEN u ELSE Inf(-u.n))
    ELSE [k |-> "fin", n |-> w * u.n, d |-> u.d]

FAdd(u, v) ==
    IF u.k = "nan" \/ v.k = "nan" THEN NaN
    ELSE IF u.k = "inf" /\ v.k = "inf" THEN (IF u.n = v.n THEN u ELSE NaN)
    ELSE IF u.k = "inf" THEN u
    ELSE IF v.k = "inf" THEN v
    ELSE IF u.d = v.d THEN [k |-> "fin", n |-> u.n + v.n, d |-> u.d]
    ELSE [k |-> "fin", n |-> u.n * v.d + v.n * u.d, d |-> u.d * v.d]

\* operator== of two doubles: a NaN equals nothing, itself included
FEq(u, v) ==
    /\ u.k # "nan"
    /\ v.k # "nan"
    /\ u.k = v.k
    /\ IF u.k = "inf" THEN u.n = v.n ELSE u.n * v.d = v.n * u.d

RECURSIVE FSum(_)
FSum(s) == IF s = <<>> THEN Fin(0) ELSE FAdd(Head(s), FSum(Tail(s)))

(***************************************************************************)
(* The kernels (rbf.h): phi(r) and phi'(r) for r = sqrt(q), in 1/Scale.    *)
(***************************************************************************)
Kernels == {"THIN_PLATE_SPLINE", "MULTIQUADRIC", "INVERSE_QUADRIC",
            "INVERSE_MULTIQUADRIC", "GAUSSIAN"}

\* Scale * ln(q), q = 1..12
LnTable == <<0, 693, 1099, 1386, 1609, 1792, 1946, 2079, 2197, 2303, 2398, 2485>>
\* Scale * exp(-q), q = 0..12
ExpTable == <<1000, 368, 135, 50, 18, 7, 2, 1, 0, 0, 0, 0, 0>>

RBFeval(k, q) ==
    CASE k = "THIN_PLATE_SPLINE" ->
            IF q = 0 THEN 0 ELSE (q * LnTable[q]) \div 2
      [] k = "MULTIQUADRIC" -> R(1 + q)
      [] k = "INVERSE_QUADRIC" -> Scale \div (1 + q)
      [] k = "INVERSE_MULTIQUADRIC" -> (Scale * Scale) \div R(1 + q)
      [] k = "GAUSSIAN" -> ExpTable[q + 1]

RBFevalDerivative(k, q) ==
    CASE k = "THIN_PLATE_SPLINE" ->
            IF q = 0 THEN 0 ELSE (R(q) * (LnTable[q] + Scale)) \div Scale
      [] k = "MULTIQUADRIC" -> (R(q) * Scale) \div R(1 + q)
      [] k = "INVERSE_QUADRIC" -> (-2 * R(q)) \div ((1 + q) * (1 + q))
      [] k = "INVERSE_MULTIQUADRIC" -> (-(R(q) * Scale)) \div ((1 + q) * R(1 + q))
      [] k = "GAUSSIAN" -> (-2 * R(q) * ExpTable[q + 1]) \div Scale

(***************************************************************************)
(* RBFNetwork::dist: throws on vectors of different size, else the         *)
(* Euclidean distance, carried as its radicand.                            *)
(***************************************************************************)
DistThrows(x, y) == Len(x) # Len(y)

Dist(x, y) == SumSeq([i \in 1..Len(x) |-> (x[i] - y[i]) * (x[i] - y[i])])

(***************************************************************************)
(* DataTable (data_table.h): the samples in the iteration order of the     *)
(* multiset that holds them, which is the lexicographic order of x.        *)
(***************************************************************************)
RECURSIVE LexLeq(_, _)
LexLeq(x, y) ==
    IF x = <<>> \/ y = <<>> THEN TRUE
    ELSE IF Head(x) # Head(y) THEN Head(x) < Head(y)
    ELSE LexLeq(Tail(x), Tail(y))

Points(d) == [1..d -> Coords]

SortedPointSeqs(d, n) ==
    {s \in [1..n -> Points(d)] : \A i \in 1..(n - 1) : LexLeq(s[i], s[i + 1])}

Min(S) == CHOOSE m \in S : \A e \in S : m <= e

RECURSIVE SortedSeq(_)
SortedSeq(S) == IF S = {} THEN <<>> ELSE <<Min(S)>> \o SortedSeq(S \ {Min(S)})

NumDuplicates(pts) == Cardinality({i \in 2..Len(pts) : pts[i] = pts[i - 1]})

MakeTable(d, pts) ==
    [allow_duplicates |-> NumDuplicates(pts) > 0,
     allow_incomplete_grid |-> FALSE,
     num_duplicates |-> NumDuplicates(pts),
     dim_x |-> IF pts = <<>> THEN 0 ELSE d,
     dim_y |-> IF pts = <<>> THEN 0 ELSE 1,
     samples |-> [i \in 1..Len(pts) |-> [x |-> pts[i], y |-> Outputs[i]]],
     grid |-> IF pts = <<>> THEN <<>>
              ELSE [v \in 1..d |-> SortedSeq({pts[i][v] : i \in 1..Len(pts)})]]

EmptyTable == MakeTable(0, <<>>)

Tables ==
    {EmptyTable} \cup
    UNION {{MakeTable(d, pts) : pts \in SortedPointSeqs(d, n)} :
           d \in Dims, n \in 1..MaxSamples}

getNumVariables(tbl) == tbl.dim_x
getNumSamples(tbl) == Len(tbl.samples)

\* a slip: the member set from the other getter of the table
NumSamplesInitDim(tbl) == getNumVariables(tbl)

\* the member initializer numSamples(samples.getNumSamples()); A, b and so the
\* solved weights are sized by this member
NumSamplesInit(tbl) == getNumSamples(tbl)

(***************************************************************************)
(* The constructor RBFNetwork(samples, type, normalized).                  *)
(***************************************************************************)
\* the kernel the constructor creates for a type
FnOfType(t) ==
    IF t = "THIN_PLATE_SPLINE" THEN "THIN_PLATE_SPLINE"
    ELSE IF t = "MULTIQUADRIC" THEN "MULTIQUADRIC"
    ELSE IF t = "INVERSE_QUADRIC" THEN "INVERSE_QUADRIC"
    ELSE IF t = "INVERSE_MULTIQUADRIC" THEN "INVERSE_MULTIQUADRIC"
    ELSE IF t = "GAUSSIAN" THEN "GAUSSIAN"
    ELSE "THIN_PLATE_SPLINE"

\* the member initializer precondition(false)
PreconditionDefault == FALSE

\* val = fn->eval(dist(*it1, *it2))
KernelValSelf(tbl, k, i, j) == RBFeval(k, Dist(tbl.samples[i].x, tbl.samples[i].x))
KernelVal(tbl, k, i, j) == RBFeval(k, Dist(tbl.samples[i].x, tbl.samples[j].x))

\* A(i,j) after the loops: zero from setZero unless val != 0 assigned it
AssembleEntry(tbl, k, i, j) ==
    LET val == KernelVal(tbl, k, i, j)
    IN IF val # 0 THEN val ELSE 0

AssembleA(tbl, k) ==
    LET n == getNumSamples(tbl)
    IN [i \in 1..n |-> [j \in 1..n |-> AssembleEntry(tbl, k, i, j)]]

\* sum: the values val != 0 of row i
RowSum(tbl, k, i) ==
    LET n == getNumSamples(tbl)
    IN SumSeq([j \in 1..n |->
                 LET val == KernelVal(tbl, k, i, j) IN IF val # 0 THEN val ELSE 0])

\* a slip: the normalized right-hand side without the row sum
RhsNoSum(tbl, k, nrm, i) == tbl.samples[i].y

\* b(i)
Rhs(tbl, k, nrm, i) ==
    LET y == tbl.samples[i].y
    IN IF nrm THEN RowSum(tbl, k, i) * y ELSE y

AssembleB(tbl, k, nrm) == [i \in 1..getNumSamples(tbl) |-> Rhs(tbl, k, nrm, i)]

computePreconditionMatrix(n) == [i \in 1..n |-> [j \in 1..n |-> 0]]

MatMul(P, M) ==
    [i \in 1..Len(P) |-> [j \in 1..Len(M) |->
        SumSeq([l \in 1..Len(M) |-> P[i][l] * M[l][j]])]]

MatVec(P, v) ==
    [i \in 1..Len(P) |-> SumSeq([l \in 1..Len(v) |-> P[i][l] * v[l]])]

\* the system that reaches JacobiSVD and svd.solve
SolverA(tbl, k, pre) ==
    IF pre THEN MatMul(computePreconditionMatrix(getNumSamples(tbl)), AssembleA(tbl, k))
    ELSE AssembleA(tbl, k)

SolverB(tbl, k, nrm, pre) ==
    IF pre THEN MatVec(computePreconditionMatrix(getNumSamples(tbl)), AssembleB(tbl, k, nrm))
    ELSE AssembleB(tbl, k, nrm)

NoRet == [op |-> "none", err |-> "none", x |-> <<>>, val |-> <<>>, aux |-> <<>>]

Returned(op, err, x, val, aux) ==
    [op |-> op, err |-> err, x |-> x, val |-> val, aux |-> aux]

AllFields == {"normalized", "precondition", "numVariables", "numSamples",
              "type", "samples", "coefficients"}

\* svd.solve(b): some vector with one entry per column of A.  With no samples
\* svals(0) reads an empty vector: the build either stops there or goes on.
Construct(tbl, t, nrm) ==
    /\ ~alive
    /\ pc = "ready"
    /\ \E w \in [1..NumSamplesInit(tbl) -> Weights], goesOn \in BOOLEAN :
        /\ getNumSamples(tbl) > 0 => goesOn
        /\ alive' = goesOn
        /\ numVariables' = getNumVariables(tbl)
        /\ samples' = tbl
        /\ type' = t
        /\ normalized' = nrm
        /\ precondition' = PreconditionDefault
        /\ numSamples' = NumSamplesInit(tbl)
        /\ fn' = FnOfType(t)
        /\ svdA' = SolverA(tbl, FnOfType(t), PreconditionDefault)
        /\ svdB' = SolverB(tbl, FnOfType(t), nrm, PreconditionDefault)
        /\ coefficients' = w
        /\ ret' = Returned("construct", IF goesOn THEN "none" ELSE "crash",
                           <<>>, <<>>, <<>>)
    /\ pc' = "returned"
    /\ halfLoaded' = FALSE
    /\ UNCHANGED serVars

\* the caller takes the result; the object is ready for the next call, and
\* the constructor's transient linear system is discarded
Return ==
    /\ pc = "returned"
    /\ pc' = "ready"
    /\ ret' = NoRet
    /\ svdA' = <<>>
    /\ svdB' = <<>>
    /\ UNCHANGED <<alive, numVariables, samples, type, normalized, precondition,
                   numSamples, fn, coefficients, halfLoaded>>
    /\ UNCHANGED serVars

(***************************************************************************)
(* Evaluation.  The loops run over the sample table; sample i is paired    *)
(* with coefficients(i).                                                   *)
(***************************************************************************)
NumRows == Len(samples.samples)

SampleX(i) == samples.samples[i].x

\* some sample's input vector has another size than x: dist throws
SomeDistThrows(x) == \E i \in 1..NumRows : DistThrows(x, SampleX(i))

\* coefficients(i) is read beyond the vector's end, or was never written
CoefficientsUndefined ==
    \/ Len(coefficients) < NumRows
    \/ \E i \in 1..NumRows : coefficients[i] = Uninit

\* fval = fn->eval(dist(xv, it->getX()))
Fval(x, i) == RBFeval(fn, Dist(x, SampleX(i)))

\* the weight eval pairs with sample i
EvalWeightFirst(i) == coefficients[1]
EvalWeight(i) == coefficients[i]

EvalSum(x) == SumSeq([i \in 1..NumRows |-> Fval(x, i)])

EvalSumw(x) == SumSeq([i \in 1..NumRows |-> EvalWeight(i) * Fval(x, i)])

\* ret = sumw; if (normalized) ret /= sum
EvalValue(x) ==
    IF normalized THEN FDiv(EvalSumw(x), EvalSum(x)) ELSE Fin(EvalSumw(x))

EvalOutcome(x) ==
    IF Len(x) # numVariables THEN Returned("eval", "dimension", x, <<>>, <<>>)
    ELSE IF SomeDistThrows(x) THEN Returned("eval", "dimension", x, <<>>, <<>>)
    ELSE IF CoefficientsUndefined THEN Returned("eval", "undefined", x, <<>>, <<>>)
    ELSE Returned("eval", "none", x, EvalValue(x), <<>>)

getNumCoefficients == Len(coefficients)

\* basis(i) = fn->eval(...); entries past the last sample are never written
BasisRaw(x) ==
    [i \in 1..getNumCoefficients |-> IF i <= NumRows THEN Fval(x, i) ELSE Uninit]

\* if (normalized) basis /= basis.sum()
BasisValue(x) ==
    LET raw == BasisRaw(x)
    IN [i \in 1..Len(raw) |->
          IF normalized THEN FDiv(raw[i], SumSeq(raw)) ELSE Fin(raw[i])]

EvalBasisOutcome(x) ==
    IF Len(x) # numVariables THEN Returned("evalBasis", "dimension", x, <<>>, <<>>)
    ELSE IF SomeDistThrows(x) THEN Returned("evalBasis", "dimension", x, <<>>, <<>>)
    ELSE IF getNumCoefficients < NumRows \/ (normalized /\ getNumCoefficients > NumRows)
    THEN Returned("evalBasis", "undefined", x, <<>>, <<>>)
    ELSE Returned("evalBasis", "none", x, BasisValue(x), <<>>)

(***************************************************************************)
(* evalJacobian.  There is no test of x.size(): a wrong size is noticed    *)
(* only by dist, when the loop over the samples runs at least once.        *)
(***************************************************************************)
\* if (r != 0)
DerivGuardOff(q) == TRUE
DerivGuard(q) == q # 0

\* a / r
DivR(a, q) == IF R(q) = 0 THEN NaN ELSE Fin((a * Scale) \div R(q))

\* the samples whose directional term is added for query x
DerivSamples(x) == {j \in 1..NumRows : DerivGuard(Dist(x, SampleX(j)))}

JacSumd(x, i) ==
    FSum([j \in 1..NumRows |->
        LET q == Dist(x, SampleX(j))
        IN IF DerivGuard(q)
           THEN DivR(RBFevalDerivative(fn, q) * (x[i] - SampleX(j)[i]), q)
           ELSE Fin(0)])

JacSumwd(x, i) ==
    FSum([j \in 1..NumRows |->
        LET q == Dist(x, SampleX(j))
        IN IF DerivGuard(q)
           THEN DivR(coefficients[j] * RBFevalDerivative(fn, q)
                        * (x[i] - SampleX(j)[i]), q)
           ELSE Fin(0)])

JacSum(x) == SumSeq([j \in 1..NumRows |-> Fval(x, j)])

JacSumw(x) == SumSeq([j \in 1..NumRows |-> coefficients[j] * Fval(x, j)])

\* (sum*sumw_d - sum_d*sumw)/(sum*sum)
Quotient(sum, sumw, sumd, sumwd) ==
    IF sumd.k # "fin" \/ sumwd.k # "fin" THEN NaN
    ELSE FDiv(sum * sumwd.n - sumd.n * sumw, sum * sum)

\* jac(i)
JacEntry(x, i) ==
    IF normalized
    THEN Quotient(JacSum(x), JacSumw(x), JacSumd(x, i), JacSumwd(x, i))
    ELSE JacSumwd(x, i)

\* what the call divides by, for each sample it divides for
JacDivisors(x) == {R(Dist(x, SampleX(j))) : j \in DerivSamples(x)}

JacAux(x) ==
    [divisors |-> IF numVariables = 0 THEN {} ELSE JacDivisors(x),
     sum_d |-> [i \in 1..numVariables |-> JacSumd(x, i)],
     sumw_d |-> [i \in 1..numVariables |-> JacSumwd(x, i)]]

EvalJacobianOutcome(x) ==
    IF numVariables > 0 /\ SomeDistThrows(x)
    THEN Returned("evalJacobian", "dimension", x, <<>>, <<>>)
    ELSE IF NumRows > 0 /\ numVariables > Len(x)
    THEN Returned("evalJacobian", "range", x, <<>>, <<>>)
    ELSE IF numVariables > 0 /\ CoefficientsUndefined
    THEN Returned("evalJacobian", "undefined", x, <<>>, <<>>)
    ELSE Returned("evalJacobian", "none", x,
                  [i \in 1..numVariables |-> JacEntry(x, i)], JacAux(x))

\* the query vectors: every vector of the model's dimension, and constant
\* vectors one shorter and one longer
Queries ==
    [1..numVariables -> Coords]
    \cup {[i \in 1..l |-> c] : l \in {numVariables - 1, numVariables + 1} \cap Nat,
                              c \in Coords}

\* a call that leaves the object as it is; the constructor's linear system
\* is gone once the constructor has returned
Unchanged ==
    /\ UNCHANGED <<alive, numVariables, samples, type, normalized, precondition,
                   numSamples, fn, coefficients, halfLoaded>>
    /\ UNCHANGED <<svdA, svdB>>

Eval(x) ==
    /\ alive
    /\ pc = "ready"
    /\ ret' = EvalOutcome(x)
    /\ pc' = "returned"
    /\ Unchanged
    /\ UNCHANGED serVars

EvalBasis(x) ==
    /\ alive
    /\ pc = "ready"
    /\ ret' = EvalBasisOutcome(x)
    /\ pc' = "returned"
    /\ Unchanged
    /\ UNCHANGED serVars

EvalJacobian(x) ==
    /\ alive
    /\ pc = "ready"
    /\ ret' = EvalJacobianOutcome(x)
    /\ pc' = "returned"
    /\ Unchanged
    /\ UNCHANGED serVars

(***************************************************************************)
(* The serializer.  A stream is a sequence of bytes 0..255.  A scalar of   *)
(* type T is sizeof(T) raw bytes (little endian, two's complement; the     *)
(* model's scalars are below 2^23 in magnitude, so the bytes from the      *)
(* fourth on only carry the sign).                                         *)
(***************************************************************************)
SizeofBool == 1
SizeofUnsigned == 4
SizeofSize == 8
SizeofDouble == 8

RBFTypeSeq == <<"THIN_PLATE_SPLINE", "MULTIQUADRIC", "INVERSE_QUADRIC",
                "INVERSE_MULTIQUADRIC", "GAUSSIAN">>

PrimTypes == {"bool", "unsigned", "RBFType", "size_t", "double"}

SizeOf(t) ==
    CASE t = "bool" -> SizeofBool
      [] t = "unsigned" -> SizeofUnsigned
      [] t = "RBFType" -> SizeofUnsigned
      [] t = "size_t" -> SizeofSize
      [] t = "double" -> SizeofDouble

Byte(v, k) ==
    IF k < 3 THEN ((v % 16777216) \div (256 ^ k)) % 256
    ELSE IF v < 0 THEN 255 ELSE 0

EncodeInt(v, w) == [k \in 1..w |-> Byte(v, k - 1)]

DecodeInt(bs) ==
    LET w == Len(bs)
        low == SumSeq([k \in 1..(IF w < 3 THEN w ELSE 3) |-> bs[k] * (256 ^ (k - 1))])
    IN IF w > 3 /\ bs[w] >= 128 THEN low - 16777216 ELSE low

IndexOf(seq, e) == CHOOSE i \in 1..Len(seq) : seq[i] = e

\* the bytes of a scalar
EncodePrim(t, v) ==
    CASE t = "bool" -> <<IF v THEN 1 ELSE 0>>
      [] t = "RBFType" -> EncodeInt(IndexOf(RBFTypeSeq, v) - 1, SizeOf(t))
      [] OTHER -> EncodeInt(v, SizeOf(t))

\* a count of 2^60 or more, which the top byte of a size_t announces
HugeSize == 16777216

\* the scalar of sizeof(T) bytes
DecodePrim(t, bs) ==
    CASE t = "bool" -> bs[1] # 0
      [] t = "size_t" -> IF bs[SizeofSize] >= 16 THEN HugeSize ELSE DecodeInt(bs)
      [] t = "RBFType" ->
            LET n == DecodeInt(bs)
            IN IF n + 1 \in 1..Len(RBFTypeSeq) THEN RBFTypeSeq[n + 1] ELSE "UNKNOWN"
      [] OTHER -> DecodeInt(bs)

(***************************************************************************)
(* The types the serializer handles: scalars, Eigen's dense vector and     *)
(* matrix, standard containers (size-prefixed) and composite records.      *)
(***************************************************************************)
Containers == {"vector<double>", "set<double>", "vector<set<double>>",
               "multiset<DataPoint>", "vector<BSplineBasis1D>"}

Composites == {"DataPoint", "DataTable", "BSpline", "BSplineBasis",
               "BSplineBasis1D", "KnotVector", "RBFNetwork"}

ElemType(t) ==
    CASE t = "vector<double>" -> "double"
      [] t = "set<double>" -> "double"
      [] t = "vector<set<double>>" -> "set<double>"
      [] t = "multiset<DataPoint>" -> "DataPoint"
      [] t = "vector<BSplineBasis1D>" -> "BSplineBasis1D"

\* the declared type of a composite's field
FieldType(t, f) ==
    CASE t = "DataPoint" ->
            (CASE f = "x" -> "vector<double>" [] f = "y" -> "double")
      [] t = "DataTable" ->
            (CASE f = "allow_duplicates" -> "bool"
               [] f = "allow_incomplete_grid" -> "bool"
               [] f = "num_duplicates" -> "unsigned"
               [] f = "dim_x" -> "unsigned"
               [] f = "dim_y" -> "unsigned"
               [] f = "samples" -> "multiset<DataPoint>"
               [] f = "grid" -> "vector<set<double>>")
      [] t = "BSpline" ->
            (CASE f = "basis" -> "BSplineBasis"
               [] f = "control_points" -> "DenseMatrix"
               [] f = "dim_x" -> "unsigned"
               [] f = "dim_y" -> "unsigned")
      [] t = "BSplineBasis" ->
            (CASE f = "bases" -> "vector<BSplineBasis1D>"
               [] f = "num_variables" -> "unsigned")
      [] t = "BSplineBasis1D" ->
            (CASE f = "degree" -> "unsigned"
               [] f = "knots" -> "KnotVector"
               [] f = "target_num_basis_functions" -> "unsigned")
      [] t = "KnotVector" -> (CASE f = "knots" -> "vector<double>")
      [] t = "RBFNetwork" ->
            (CASE f = "normalized" -> "bool"
               [] f = "precondition" -> "bool"
               [] f = "numVariables" -> "unsigned"
               [] f = "numSamples" -> "unsigned"
               [] f = "type" -> "RBFType"
               [] f = "samples" -> "DataTable"
               [] f = "coefficients" -> "DenseVector")

\* the order in which the RBFNetwork overloads visit the fields
RBFNetworkFields == <<"normalized", "precondition", "numVariables", "numSamples",
                      "type", "samples", "coefficients">>

\* the fields get_size adds up, in the order of the source
GetSizeFields(t) ==
    CASE t = "DataPoint" -> <<"x", "y">>
      [] t = "DataTable" -> <<"allow_duplicates", "allow_incomplete_grid",
                              "num_duplicates", "dim_x", "dim_y", "samples", "grid">>
      [] t = "BSpline" -> <<"basis", "control_points", "dim_x", "dim_y">>
      [] t = "BSplineBasis" -> <<"bases", "num_variables">>
      [] t = "BSplineBasis1D" -> <<"degree", "knots", "target_num_basis_functions">>
      [] t = "KnotVector" -> <<"knots">>
      [] t = "RBFNetwork" -> RBFNetworkFields

\* the fields _serialize writes, in the order of the source
SerializeFields(t) ==
    CASE t = "DataPoint" -> <<"x", "y">>
      [] t = "DataTable" -> <<"allow_duplicates", "allow_incomplete_grid",
                              "num_duplicates", "dim_x", "dim_y", "samples", "grid">>
      [] t = "BSpline" -> <<"basis", "control_points", "dim_x", "dim_y">>
      [] t = "BSplineBasis" -> <<"bases", "num_variables">>
      [] t = "BSplineBasis1D" -> <<"degree", "knots", "target_num_basis_functions">>
      [] t = "KnotVector" -> <<"knots">>
      [] t = "RBFNetwork" -> RBFNetworkFields

\* a slip: two fields of a record read in the other order
DeserializeFieldsSwapped(t) ==
    CASE t = "DataPoint" -> <<"y", "x">>
      [] t = "DataTable" -> <<"allow_duplicates", "allow_incomplete_grid",
                              "dim_x", "num_duplicates", "dim_y", "samples", "grid">>
      [] t = "BSpline" -> <<"basis", "control_points", "dim_y", "dim_x">>
      [] t = "BSplineBasis" -> <<"num_variables", "bases">>
      [] t = "BSplineBasis1D" -> <<"target_num_basis_functions", "knots", "degree">>
      [] t = "KnotVector" -> <<"knots">>
      [] t = "RBFNetwork" -> RBFNetworkFields

\* the fields deserialize reads, in the order of the source
DeserializeFields(t) ==
    CASE t = "DataPoint" -> <<"x", "y">>
      [] t = "DataTable" -> <<"allow_duplicates", "allow_incomplete_grid",
                              "num_duplicates", "dim_x", "dim_y", "samples", "grid">>
      [] t = "BSpline" -> <<"basis", "control_points", "dim_x", "dim_y">>
      [] t = "BSplineBasis" -> <<"bases", "num_variables">>
      [] t = "BSplineBasis1D" -> <<"degree", "knots", "target_num_basis_functions">>
      [] t = "KnotVector" -> <<"knots">>
      [] t = "RBFNetwork" -> RBFNetworkFields

RECURSIVE DefaultObj(_)
DefaultObj(t) ==
    IF t = "bool" THEN FALSE
    ELSE IF t = "RBFType" THEN "THIN_PLATE_SPLINE"
    ELSE IF t \in PrimTypes THEN 0
    ELSE IF t = "DenseVector" \/ t \in Containers THEN <<>>
    ELSE IF t = "DenseMatrix" THEN [rows |-> 0, cols |-> 0, at |-> <<>>]
    ELSE LET fs == DeserializeFields(t)
         IN [f \in {fs[i] : i \in 1..Len(fs)} |-> DefaultObj(FieldType(t, f))]

(***************************************************************************)
(* Dense matrices: [rows, cols, at], at[i][j] the element (i,j).           *)
(***************************************************************************)
\* the (i,j) in the order the nested loops of _serialize visit them
MatrixWriteOrder(rows, cols) ==
    [k \in 1..(rows * cols) |-> <<((k - 1) \div cols) + 1, ((k - 1) % cols) + 1>>]

\* a slip: the loops of deserialize nested the other way round
MatrixReadOrderByColumn(rows, cols) ==
    [k \in 1..(rows * cols) |-> <<((k - 1) % rows) + 1, ((k - 1) \div rows) + 1>>]

\* the (i,j) in the order the nested loops of deserialize visit them
MatrixReadOrder(rows, cols) ==
    [k \in 1..(rows * cols) |-> <<((k - 1) \div cols) + 1, ((k - 1) % cols) + 1>>]

RECURSIVE Concat(_)
Concat(ss) == IF ss = <<>> THEN <<>> ELSE Head(ss) \o Concat(Tail(ss))

(***************************************************************************)
(* get_size                                                                *)
(***************************************************************************)
GetSizeDenseMatrix(m) ==
    LET numElements == m.rows * m.cols
    IN SizeofSize + SizeofSize
         + (IF numElements > 0 THEN numElements * SizeofDouble ELSE 0)

GetSizeDenseVector(v) ==
    LET numElements == Len(v)
    IN SizeofSize + (IF numElements > 0 THEN numElements * SizeofDouble ELSE 0)

RECURSIVE GetSize(_, _)
GetSize(t, v) ==
    IF t \in PrimTypes THEN SizeOf(t)
    ELSE IF t = "DenseVector" THEN GetSizeDenseVector(v)
    ELSE IF t = "DenseMatrix" THEN GetSizeDenseMatrix(v)
    ELSE IF t \in Containers
    THEN SizeofSize + SumSeq([i \in 1..Len(v) |-> GetSize(ElemType(t), v[i])])
    ELSE LET fs == GetSizeFields(t)
         IN SumSeq([i \in 1..Len(fs) |-> GetSize(FieldType(t, fs[i]), v[fs[i]])])

(***************************************************************************)
(* _serialize: the bytes appended to the stream.                           *)
(***************************************************************************)
SerDenseMatrix(m) ==
    LET order == MatrixWriteOrder(m.rows, m.cols)
    IN EncodePrim("size_t", m.rows) \o EncodePrim("size_t", m.cols)
         \o Concat([k \in 1..Len(order) |->
                      EncodePrim("double", m.at[order[k][1]][order[k][2]])])

SerDenseVector(v) ==
    EncodePrim("size_t", Len(v))
        \o Concat([i \in 1..Len(v) |-> EncodePrim("double", v[i])])

RECURSIVE Ser(_, _)
Ser(t, v) ==
    IF t \in PrimTypes THEN EncodePrim(t, v)
    ELSE IF t = "DenseVector" THEN SerDenseVector(v)
    ELSE IF t = "DenseMatrix" THEN SerDenseMatrix(v)
    ELSE IF t \in Containers
    THEN EncodePrim("size_t", Len(v))
           \o Concat([i \in 1..Len(v) |-> Ser(ElemType(t), v[i])])
    ELSE LET fs == SerializeFields(t)
         IN Concat([i \in 1..Len(fs) |-> Ser(FieldType(t, fs[i]), v[fs[i]])])

\* where the bytes of each field of a composite lie in its stream
RECURSIVE SerSpans(_, _, _, _)
SerSpans(t, v, i, pos) ==
    LET fs == SerializeFields(t)
    IN IF i > Len(fs) THEN <<>>
       ELSE LET n == Len(Ser(FieldType(t, fs[i]), v[fs[i]]))
            IN <<<<fs[i], pos, pos + n>>>> \o SerSpans(t, v, i + 1, pos + n)

(***************************************************************************)
(* deserialize: reads at the cursor pos (the bytes consumed so far) and    *)
(* fills the object in place.  A result is [ok, val, pos, spans]: whether  *)
(* the read completed, the object as it was left, the cursor, and for a    *)
(* composite where each field was read.  Newly allocated doubles that      *)
(* were never written hold Uninit, an indeterminate value.                 *)
(***************************************************************************)
Res(ok, val, pos) ==
    [ok |-> ok, val |-> val, pos |-> pos, spans |-> <<>>,
     err |-> IF ok THEN "none" ELSE "io"]

\* resize throws std::bad_alloc: no allocator grants 2^60 doubles
AllocThrows(rows, cols) == rows * cols # 0 /\ (rows >= HugeSize \/ cols >= HugeSize)

BadAlloc(val, pos) ==
    [ok |-> FALSE, val |-> val, pos |-> pos, spans |-> <<>>, err |-> "alloc"]

\* a scalar: throws when fewer than sizeof(T) bytes are left
DesPrim(t, old, s, pos) ==
    IF pos + SizeOf(t) > Len(s) THEN Res(FALSE, old, pos)
    ELSE Res(TRUE, DecodePrim(t, SubSeq(s, pos + 1, pos + SizeOf(t))), pos + SizeOf(t))

\* the elements of a dense vector, from the i-th on
RECURSIVE DesVectorElems(_, _, _, _)
DesVectorElems(v, i, s, pos) ==
    IF i > Len(v) THEN Res(TRUE, v, pos)
    ELSE LET e == DesPrim("double", v[i], s, pos)
         IN IF ~e.ok THEN Res(FALSE, v, pos)
            ELSE DesVectorElems([v EXCEPT ![i] = e.val], i + 1, s, e.pos)

\* obj.resize(rows): the old elements if the size is the same, fresh memory if not
ResizeVector(old, rows) ==
    IF Len(old) = rows THEN old ELSE [i \in 1..rows |-> Uninit]

DesDenseVector(old, s, pos) ==
    LET rows == DesPrim("size_t", 0, s, pos)
    IN IF ~rows.ok THEN Res(FALSE, old, pos)
       ELSE IF AllocThrows(rows.val, 1) THEN BadAlloc(old, rows.pos)
       ELSE DesVectorElems(ResizeVector(old, rows.val), 1, s, rows.pos)

\* the elements of a dense matrix, from the k-th of the read order on
RECURSIVE DesMatrixElems(_, _, _, _, _)
DesMatrixElems(m, order, k, s, pos) ==
    IF k > Len(order) THEN Res(TRUE, m, pos)
    ELSE LET i == order[k][1]
             j == order[k][2]
             e == DesPrim("double", m.at[i][j], s, pos)
         IN IF ~e.ok THEN Res(FALSE, m, pos)
            ELSE DesMatrixElems([m EXCEPT !.at[i][j] = e.val], order, k + 1, s, e.pos)

ResizeMatrix(old, rows, cols) ==
    IF old.rows = rows /\ old.cols = cols THEN old
    ELSE [rows |-> rows, cols |-> cols,
          at |-> [i \in 1..rows |-> [j \in 1..cols |-> Uninit]]]

DesDenseMatrix(old, s, pos) ==
    LET rows == DesPrim("size_t", 0, s, pos)
    IN IF ~rows.ok THEN Res(FALSE, old, pos)
       ELSE LET cols == DesPrim("size_t", 0, s, rows.pos)
            IN IF ~cols.ok THEN Res(FALSE, old, rows.pos)
               ELSE IF AllocThrows(rows.val, cols.val) THEN BadAlloc(old, cols.pos)
               ELSE DesMatrixElems(ResizeMatrix(old, rows.val, cols.val),
                                   MatrixReadOrder(rows.val, cols.val), 1, s, cols.pos)

RECURSIVE Des(_, _, _, _)
RECURSIVE DesElems(_, _, _, _, _)
RECURSIVE DesFields(_, _, _, _, _, _)

\* the elements of a container: n more to read, acc read so far
DesElems(t, n, acc, s, pos) ==
    IF n = 0 THEN Res(TRUE, acc, pos)
    ELSE LET e == Des(ElemType(t), DefaultObj(ElemType(t)), s, pos)
         IN IF ~e.ok THEN [e EXCEPT !.val = acc, !.spans = <<>>]
            ELSE DesElems(t, n - 1, Append(acc, e.val), s, e.pos)

\* the fields of a composite, from the i-th of its read order on
DesFields(t, i, cur, s, pos, spans) ==
    LET fs == DeserializeFields(t)
    IN IF i > Len(fs) THEN [Res(TRUE, cur, pos) EXCEPT !.spans = spans]
       ELSE LET f == fs[i]
                e == Des(FieldType(t, f), cur[f], s, pos)
                nxt == [cur EXCEPT ![f] = e.val]
            IN IF ~e.ok
               THEN [e EXCEPT !.val = nxt, !.spans = spans]
               ELSE DesFields(t, i + 1, nxt, s, e.pos,
                              Append(spans, <<f, pos, e.pos>>))

Des(t, old, s, pos) ==
    IF t \in PrimTypes THEN DesPrim(t, old, s, pos)
    ELSE IF t = "DenseVector" THEN DesDenseVector(old, s, pos)
    ELSE IF t = "DenseMatrix" THEN DesDenseMatrix(old, s, pos)
    ELSE IF t \in Containers
    THEN LET n == DesPrim("size_t", 0, s, pos)
         IN IF ~n.ok THEN Res(FALSE, old, pos)
            ELSE DesElems(t, n.val, <<>>, s, n.pos)
    ELSE DesFields(t, 1, old, s, pos, <<>>)

(***************************************************************************)
(* Files.  saveToFile writes the stream byte by byte; loadFromFile reads   *)
(* the whole file into chars and converts each to uint8_t.                 *)
(***************************************************************************)
ToChar(byte) == IF byte >= 128 THEN byte - 256 ELSE byte
ToUint8(c) == c % 256

LoadedStream(f) == [i \in 1..Len(f) |-> ToUint8(ToChar(f[i]))]

(***************************************************************************)
(* The objects handed to the serializer.                                   *)
(***************************************************************************)
MaxRows == 2
MaxCols == 2
ElemVals == {-3, 70000}

\* the r x c matrices with elements of ElemVals
MatricesOf(r, c) ==
    {[rows |-> r, cols |-> c, at |-> a] : a \in [1..r -> [1..c -> ElemVals]]}

\* a 5 x 3 matrix of distinct elements, some negative
Matrix53 ==
    [rows |-> 5, cols |-> 3, at |-> [i \in 1..5 |-> [j \in 1..3 |-> 100 * i + j - 250]]]

DenseMatrices ==
    {Matrix53} \cup UNION {MatricesOf(r, c) : r \in 0..MaxRows, c \in 0..MaxCols}

DenseVectors == UNION {[1..n -> ElemVals] : n \in 0..MaxRows}

KnotVectors == {[knots |-> k] : k \in {<<>>, <<0, 0, 1, 1>>, <<0, 1, 2>>}}

BSplineBasis1Ds ==
    {[degree |-> d, knots |-> kv, target_num_basis_functions |-> n] :
        d \in {1, 3}, kv \in KnotVectors, n \in {0, 2}}

BasesLists ==
    {<<>>} \cup {<<b>> : b \in BSplineBasis1Ds}
           \cup {<<b, c>> : b, c \in {e \in BSplineBasis1Ds : e.degree = e.target_num_basis_functions + 1}}

BSplineBases == {[bases |-> bs, num_variables |-> Len(bs)] : bs \in BasesLists}

BSplines ==
    {[basis |-> B, control_points |-> M, dim_x |-> B.num_variables, dim_y |-> M.rows + 3] :
        B \in {e \in BSplineBases : \A i \in 1..Len(e.bases) : e.bases[i].degree = 3},
        M \in MatricesOf(1, 2) \cup MatricesOf(0, 0)}

DataPoints == UNION {{tbl.samples[i] : i \in 1..Len(tbl.samples)} : tbl \in Tables}

SerKinds == {"DenseVector", "DenseMatrix", "DataPoint", "DataTable", "BSpline",
             "BSplineBasis", "BSplineBasis1D", "KnotVector"}

Objects(t) ==
    CASE t = "DenseVector" -> DenseVectors
      [] t = "DenseMatrix" -> DenseMatrices
      [] t = "DataPoint" -> DataPoints
      [] t = "DataTable" -> Tables
      [] t = "BSpline" -> BSplines
      [] t = "BSplineBasis" -> BSplineBases
      [] t = "BSplineBasis1D" -> BSplineBasis1Ds
      [] t = "KnotVector" -> KnotVectors

(***************************************************************************)
(* A Serializer at work: an object is serialized and saved to a file; the  *)
(* file may be damaged on disk; a second Serializer loads the file and     *)
(* deserializes it into a fresh object.                                    *)
(***************************************************************************)
SerOutcome(op, err, size, pos, spans) ==
    [op |-> op, ok |-> (err = "none"), err |-> err, size |-> size, pos |-> pos,
     spans |-> spans]

\* Serializer s; s.serialize(v); s.saveToFile(name)
SerializeAndSave(t, v) ==
    /\ kind = "none"
    /\ kind' = t
    /\ obj' = v
    /\ stream' = Ser(t, v)
    /\ file' = Ser(t, v)
    /\ damage' = "none"
    /\ out' = DefaultObj(t)
    /\ sret' = SerOutcome("serialize", "none", GetSize(t, v), 0,
                          IF t \in Composites THEN SerSpans(t, v, 1, 0) ELSE <<>>)
    /\ UNCHANGED rbfVars

\* the file loses its end
Truncate(cut) ==
    /\ kind # "none"
    /\ sret.op = "serialize"
    /\ damage = "none"
    /\ cut < Len(file)
    /\ file' = SubSeq(file, 1, cut)
    /\ damage' = "truncated"
    /\ UNCHANGED <<kind, obj, stream, out, sret>>
    /\ UNCHANGED rbfVars

\* a size prefix of a dense vector (rows) or matrix (rows, cols) grows: by
\* one (its lowest byte) or by 2^60 (its top byte).  The model keeps a matrix
\* row by row, so 2^60 rows of no column, which hold no element, are left out.
Inflate(off, b) ==
    /\ kind \in {"DenseVector", "DenseMatrix"}
    /\ sret.op = "serialize"
    /\ damage = "none"
    /\ IF kind = "DenseVector" THEN off = 0 ELSE TRUE
    /\ IF kind = "DenseMatrix" /\ off = 0 /\ b # 1 THEN obj.cols # 0 ELSE TRUE
    /\ file' = [file EXCEPT ![off + b] = @ + (IF b = 1 THEN 1 ELSE 16)]
    /\ damage' = "inflated"
    /\ UNCHANGED <<kind, obj, stream, out, sret>>
    /\ UNCHANGED rbfVars

\* the file is deleted
Remove ==
    /\ kind # "none"
    /\ sret.op = "serialize"
    /\ damage = "none"
    /\ file' = <<>>
    /\ damage' = "missing"
    /\ UNCHANGED <<kind, obj, stream, out, sret>>
    /\ UNCHANGED rbfVars

\* Serializer s(name); s.deserialize(out)
LoadAndDeserialize ==
    /\ kind # "none"
    /\ sret.op = "serialize"
    /\ IF damage = "missing"
       THEN /\ stream' = <<>>
            /\ out' = out
            /\ sret' = SerOutcome("deserialize", "io", 0, 0, <<>>)
       ELSE LET r == Des(kind, out, LoadedStream(file), 0)
            IN /\ stream' = LoadedStream(file)
               /\ out' = r.val
               /\ sret' = SerOutcome("deserialize", r.err, 0, r.pos, r.spans)
    /\ UNCHANGED <<kind, obj, file, damage>>
    /\ UNCHANGED rbfVars

SerNext ==
    \/ \E t \in SerKinds : \E v \in Objects(t) : SerializeAndSave(t, v)
    \/ \E cut \in 0..Len(file) : Truncate(cut)
    \/ \E off \in {0, SizeofSize}, b \in {1, SizeofSize} : Inflate(off, b)
    \/ Remove
    \/ LoadAndDeserialize

(***************************************************************************)
(* RBFNetwork::save and RBFNetwork::load, and the constructor that loads.  *)
(***************************************************************************)
ThisNet ==
    [normalized |-> normalized, precondition |-> precondition,
     numVariables |-> numVariables, numSamples |-> numSamples, type |-> type,
     samples |-> samples, coefficients |-> coefficients]

\* the members of an object under construction by RBFNetwork(fileName): Function(1)
FreshNet ==
    [normalized |-> FALSE, precondition |-> FALSE, numVariables |-> 1,
     numSamples |-> 0, type |-> "THIN_PLATE_SPLINE", samples |-> EmptyTable,
     coefficients |-> <<>>]

\* what the constructor leaves for a table, a type, a flag and solved weights
NetOf(tbl, t, nrm, w) ==
    [normalized |-> nrm, precondition |-> FALSE,
     numVariables |-> getNumVariables(tbl), numSamples |-> getNumSamples(tbl),
     type |-> t, samples |-> tbl, coefficients |-> w]

\* models saved earlier, whose files are on disk
SavedNets ==
    {NetOf(EmptyTable, "MULTIQUADRIC", FALSE, <<>>),
     NetOf(MakeTable(1, <<<<0>>, <<1>>>>), "GAUSSIAN", TRUE, <<2, -1>>)}

\* where a file may end: before the first field, at the end of each field, and
\* in the middle of each field that is not a scalar
CutPoints(net) ==
    LET spans == SerSpans("RBFNetwork", net, 1, 0)
    IN {0} \cup {spans[i][3] : i \in 1..Len(spans)}
           \cup {(spans[i][2] + spans[i][3]) \div 2 :
                 i \in {k \in 1..Len(spans) :
                        FieldType("RBFNetwork", spans[k][1]) \notin PrimTypes}}

\* the files a load may find: a saved model's, whole or cut short
FilesOnDisk ==
    UNION {{SubSeq(Ser("RBFNetwork", net), 1, cut) : cut \in CutPoints(net)} :
           net \in SavedNets}

\* the fields a deserialize that ended at these spans has written
Written(r) == {r.spans[i][1] : i \in 1..Len(r.spans)}

Save ==
    /\ alive
    /\ pc = "ready"
    /\ ret' = Returned("save", "none", <<>>, Ser("RBFNetwork", ThisNet), <<>>)
    /\ pc' = "returned"
    /\ Unchanged
    /\ UNCHANGED serVars

\* Serializer s(fileName); s.deserialize(*this), on a file that opens
LoadFile(f) ==
    LET r == Des("RBFNetwork", ThisNet, LoadedStream(f), 0)
    IN /\ normalized' = r.val.normalized
       /\ precondition' = r.val.precondition
       /\ numVariables' = r.val.numVariables
       /\ numSamples' = r.val.numSamples
       /\ type' = r.val.type
       /\ samples' = r.val.samples
       /\ coefficients' = r.val.coefficients
       /\ fn' = IF r.ok THEN FnOfType(r.val.type) ELSE fn
       /\ halfLoaded' = (~r.ok /\ Written(r) # {})
       /\ ret' = Returned("load", IF r.ok THEN "none" ELSE "io", <<>>, <<>>,
                          Written(r))

\* load of a file that cannot be opened: loadFromFile throws before any read
LoadMissing ==
    /\ ret' = Returned("load", "io", <<>>, <<>>, {})
    /\ UNCHANGED <<numVariables, samples, type, normalized, precondition,
                   numSamples, fn, coefficients, halfLoaded>>

\* a caller does not retry a load that failed half way
Load ==
    /\ alive
    /\ ~halfLoaded
    /\ pc = "ready"
    /\ \/ LoadMissing
       \/ \E f \in FilesOnDisk : LoadFile(f)
       \/ LoadFile(Ser("RBFNetwork", ThisNet))
    /\ pc' = "returned"
    /\ UNCHANGED <<alive, svdA, svdB>>
    /\ UNCHANGED serVars

\* RBFNetwork(fileName): Function(1), then load; a throw ends the construction
ConstructFromFile ==
    /\ ~alive
    /\ pc = "ready"
    /\ \/ /\ ret' = Returned("constructFromFile", "io", <<>>, <<>>, {})
          /\ UNCHANGED <<alive, numVariables, samples, type, normalized,
                         precondition, numSamples, fn, coefficients>>
       \/ \E f \in FilesOnDisk :
            LET r == Des("RBFNetwork", FreshNet, LoadedStream(f), 0)
            IN IF r.ok
               THEN /\ alive' = TRUE
                    /\ normalized' = r.val.normalized
                    /\ precondition' = r.val.precondition
                    /\ numVariables' = r.val.numVariables
                    /\ numSamples' = r.val.numSamples
                    /\ type' = r.val.type
                    /\ samples' = r.val.samples
                    /\ coefficients' = r.val.coefficients
                    /\ fn' = FnOfType(r.val.type)
                    /\ ret' = Returned("constructFromFile", "none", <<>>, <<>>,
                                       Written(r))
               ELSE /\ ret' = Returned("constructFromFile", "io", <<>>, <<>>,
                                       Written(r))
                    /\ UNCHANGED <<alive, numVariables, samples, type, normalized,
                                   precondition, numSamples, fn, coefficients>>
    /\ pc' = "returned"
    /\ halfLoaded' = FALSE
    /\ UNCHANGED <<svdA, svdB>>
    /\ UNCHANGED serVars

Init ==
    /\ alive = FALSE
    /\ numVariables = 0
    /\ samples = EmptyTable
    /\ type = "THIN_PLATE_SPLINE"
    /\ normalized = FALSE
    /\ precondition = FALSE
    /\ numSamples = 0
    /\ fn = "THIN_PLATE_SPLINE"
    /\ coefficients = <<>>
    /\ svdA = <<>>
    /\ svdB = <<>>
    /\ pc = "ready"
    /\ ret = NoRet
    /\ halfLoaded = FALSE
    /\ kind = "none"
    /\ obj = <<>>
    /\ stream = <<>>
    /\ file = <<>>
    /\ damage = "none"
    /\ out = <<>>
    /\ sret = SerOutcome("none", "none", 0, 0, <<>>)

Next ==
    \/ \E tbl \in Tables, t \in Kernels, nrm \in BOOLEAN : Construct(tbl, t, nrm)
    \/ \E x \in Queries : Eval(x)
    \/ \E x \in Queries : EvalBasis(x)
    \/ \E x \in Queries : EvalJacobian(x)
    \/ Save
    \/ Load
    \/ ConstructFromFile
    \/ Return

Spec == Init /\ [][Next]_vars

SerSpec == Init /\ [][SerNext]_vars

(***************************************************************************)
(* Properties.                                                             *)
(***************************************************************************)
\* the object is as a constructor or a completed load left it
Intact == alive /\ ~halfLoaded

JustReturned(op) == pc = "returned" /\ ret.op = op

\* C1: eval(x) and evalJacobian(x) fail with a dimension-mismatch error whenever
\* len(x) differs from numVariables, for any number of samples.
C1_WrongSizeRaises ==
    (Intact /\ (JustReturned("eval") \/ JustReturned("evalJacobian"))
        /\ Len(ret.x) # numVariables)
    => ret.err = "dimension"

\* C3: after a load that raised an error the model is never evaluated in a
\* state where some fields hold values of the file and the others their old
\* ones; here, eval never answers while numSamples is the file's and the table
\* is still the old one of another size.
C3_NoEvalOnHalfLoaded ==
    ~(alive /\ halfLoaded /\ NumRows > 0 /\ numSamples # NumRows
        /\ JustReturned("eval") /\ ret.err = "none" /\ ret.val.k = "fin")

\* the kernel value of the samples i and j of the owned table
Gram(i, j) == RBFeval(fn, Dist(SampleX(i), SampleX(j)))

\* C5: the matrix the constructor builds has A[i][j] = kernel.eval(dist(x_i, x_j))
\* for every ordered pair, zero kernel values included, and is symmetric.
C5_TrainingMatrix ==
    (JustReturned("construct") /\ alive)
    => /\ Len(svdA) = NumRows
       /\ \A i, j \in 1..NumRows :
            /\ svdA[i][j] = Gram(i, j)
            /\ svdA[i][j] = svdA[j][i]

C5_Witness ==
    /\ JustReturned("construct")
    /\ alive
    /\ NumRows = 2
    /\ svdA[1][1] = 0
    /\ svdA[1][2] # 0
    /\ svdA[1][2] = svdA[2][1]

\* the dot product of evalBasis(x) with the weights
BasisDot(x) ==
    FSum([i \in 1..NumRows |-> FScale(coefficients[i], BasisValue(x)[i])])

\* the sums of the claim, over the samples in table order
SumPhi(x) == SumSeq([i \in 1..NumRows |-> RBFeval(fn, Dist(x, SampleX(i)))])
SumWPhi(x) ==
    SumSeq([i \in 1..NumRows |-> coefficients[i] * RBFeval(fn, Dist(x, SampleX(i)))])

C8_RightHandSide ==
    (JustReturned("construct") /\ alive)
    => /\ ~precondition
       /\ Len(svdB) = NumRows
       /\ \A i \in 1..NumRows :
            /\ svdB[i] = IF normalized
                         THEN SumSeq([j \in 1..NumRows |-> Gram(i, j)]) * samples.samples[i].y
                         ELSE samples.samples[i].y
            /\ \A j \in 1..NumRows : svdA[i][j] = Gram(i, j)

C8_Witness ==
    /\ JustReturned("construct")
    /\ alive
    /\ normalized
    /\ NumRows = 2
    /\ svdB[2] = (Gram(2, 1) + Gram(2, 2)) * samples.samples[2].y
    /\ svdB[2] # samples.samples[2].y
    /\ Gram(2, 1) # 0

\* the directional term of sample j in dimension i, weighted by c
DerivTerm(x, i, j, c) ==
    LET q == Dist(x, SampleX(j))
    IN IF q = 0 THEN Fin(0)
       ELSE Fin((c * RBFevalDerivative(fn, q) * (x[i] - SampleX(j)[i]) * Scale) \div R(q))

\* C9: in evalJacobian a sample at distance 0 from x adds nothing to sum_d and
\* sumw_d and nothing is divided by r = 0, while the sample still adds its kernel
\* value to sum and sumw; the entry is sumw_d, or the quotient rule when normalized.
C9_JacobianSkipsZeroDistance ==
    (Intact /\ JustReturned("evalJacobian") /\ ret.err = "none"
        /\ Len(ret.x) = numVariables /\ NumRows > 0)
    => /\ 0 \notin ret.aux.divisors
       /\ \A i \in 1..numVariables :
            LET sumd == FSum([j \in 1..NumRows |-> DerivTerm(ret.x, i, j, 1)])
                sumwd == FSum([j \in 1..NumRows |-> DerivTerm(ret.x, i, j, coefficients[j])])
            IN /\ ret.aux.sum_d[i] = sumd
               /\ ret.aux.sumw_d[i] = sumwd
               /\ ret.val[i] =
                    IF normalized
                    THEN FDiv(SumPhi(ret.x) * sumwd.n - sumd.n * SumWPhi(ret.x),
                              SumPhi(ret.x) * SumPhi(ret.x))
                    ELSE sumwd

C9_Witness ==
    /\ Intact
    /\ JustReturned("evalJacobian")
    /\ ret.err = "none"
    /\ normalized
    /\ NumRows = 2
    /\ Dist(ret.x, SampleX(1)) = 0
    /\ RBFeval(fn, 0) # 0
    /\ Dist(ret.x, SampleX(2)) # 0
    /\ ret.aux.divisors = {R(Dist(ret.x, SampleX(2)))}
    /\ ret.aux.sumw_d[1].n # 0
    /\ ret.val[1].k = "fin"
    /\ ret.val[1].n # 0

ModelFields == <<numVariables, samples, type, normalized, coefficients>>

\* C10: a model that no load left half written has len(weights) = numSamples =
\* the number of samples of its table, and eval, evalBasis, evalJacobian and save
\* leave numVariables, the table, the kernel type, the flag and the weights alone.
C10_SizesAgree ==
    Intact => /\ Len(coefficients) = numSamples
              /\ numSamples = Len(samples.samples)

C10_QueriesChangeNothing ==
    (pc = "ready" /\ pc' = "returned"
        /\ ret'.op \in {"eval", "evalBasis", "evalJacobian", "save"})
    => UNCHANGED ModelFields

C10_ModelInvariant == [](C10_SizesAgree) /\ [][C10_QueriesChangeNothing]_vars

C10_Witness ==
    /\ Intact
    /\ JustReturned("save")
    /\ numSamples = 2
    /\ Len(coefficients) = 2
    /\ Len(ret.val) > 0

\* the size prefix that starts at the offset off of the loaded stream
PrefixAt(off) == DecodePrim("size_t", SubSeq(stream, off + 1, off + SizeofSize))

\* the prefixes of the loaded stream announce more elements than its bytes hold
Overfull ==
    IF kind = "DenseVector"
    THEN Len(stream) >= SizeofSize
         /\ PrefixAt(0) * SizeofDouble > Len(stream) - SizeofSize
    ELSE Len(stream) >= 2 * SizeofSize
         /\ PrefixAt(0) * PrefixAt(SizeofSize) * SizeofDouble > Len(stream) - 2 * SizeofSize

\* C2: a dense matrix of r rows and c columns, r = 0 or c = 0 included, comes
\* back from serialize then deserialize with the same r, c and elements, and
\* the bytes written are get_size(M) = 2*sizeof(size) + r*c*sizeof(double).
C2_MatrixRoundTrip ==
    (kind = "DenseMatrix" /\ damage = "none")
    => /\ Len(stream) = 2 * SizeofSize + obj.rows * obj.cols * SizeofDouble
       /\ sret.op = "serialize" => sret.size = Len(stream)
       /\ sret.op = "deserialize"
            => /\ sret.ok
               /\ sret.pos = Len(stream)
               /\ out.rows = obj.rows
               /\ out.cols = obj.cols
               /\ \A i \in 1..obj.rows : \A j \in 1..obj.cols : out.at[i][j] = obj.at[i][j]

C2_Witness ==
    /\ kind = "DenseMatrix"
    /\ damage = "none"
    /\ sret.op = "deserialize"
    /\ obj = Matrix53
    /\ out = Matrix53
    /\ Len(stream) = 2 * SizeofSize + 15 * SizeofDouble

RecordKinds == Composites \ {"RBFNetwork"}

\* C4: a stream that is truncated, or whose size prefixes announce more elements
\* than its bytes hold, makes deserialize fail with an I/O error, the read
\* cursor never beyond the last byte.
C4_MalformedFailsWithIOError ==
    (sret.op = "deserialize"
        /\ (damage = "truncated" \/ (damage = "inflated" /\ Overfull)))
    => /\ sret.err = "io"
       /\ sret.pos <= Len(stream)

\* C7: get_size, _serialize and deserialize of DataPoint, DataTable, BSpline,
\* BSplineBasis, BSplineBasis1D and KnotVector visit the same fields in the same
\* order; get_size is the number of bytes written, and deserialize reads every
\* field from the bytes _serialize wrote for it.
C7_SameFieldsSameOrder ==
    /\ \A t \in RecordKinds :
        /\ GetSizeFields(t) = SerializeFields(t)
        /\ SerializeFields(t) = DeserializeFields(t)
    /\ (kind \in RecordKinds /\ damage = "none")
       => /\ GetSize(kind, obj) = Len(stream)
          /\ sret.op = "serialize" => sret.size = Len(stream)
          /\ sret.op = "deserialize"
               => /\ sret.ok
                  /\ sret.pos = Len(stream)
                  /\ sret.spans = SerSpans(kind, obj, 1, 0)
                  /\ out = obj

C7_Witness ==
    /\ kind = "DataTable"
    /\ damage = "none"
    /\ sret.op = "deserialize"
    /\ Len(obj.samples) = 2
    /\ obj.dim_x = 2
    /\ out = obj
    /\ Len(sret.spans) = Len(DeserializeFields("DataTable"))

====
